---- MODULE Spec2Model ----
(***************************************************************************)
(* Model of the scenario-modification pipeline of RCP-Modifier:            *)
(*   src/modify_scenario.py  modify_scenario(scenario, r_factors,          *)
(*                           target_years)                                 *)
(*   src/climate_app.py      REGIONS, get_inputs_via_gui, __main__         *)
(*                                                                         *)
(* Numbers.  The program computes with floats; the model computes with     *)
(* exact fixed-point numbers: every emission value and every schedule      *)
(* value is an integer count of 1/Scale.  Scale is chosen so that every    *)
(* quantity the pipeline produces for the modelled inputs is such a        *)
(* multiple (ExactArithmetic checks this), so no rounding is modelled.     *)
(* A reduction fraction r is given by its numerator over RDen.             *)
(***************************************************************************)
EXTENDS Integers, Sequences, FiniteSets, TLC

(* ------------------------------ bounds -------------------------------- *)

\* Reduction fractions are drawn from  -1/RDen, 0, 1/RDen, ..., (RDen+1)/RDen.
RDen == 2

\* Number of baseline scenarios modelled (the program offers four).
NumBaselines == 1

(* ------------------------- program constants -------------------------- *)

\* climate_app.py
REGIONS ==
  << "World|R5LAM", "World|R5MAF", "World|R5ASIA", "World|R5REF", "World|R5OECD" >>

START_YEAR == 2025

END_YEAR == 2100

\* modify_scenario.py
regions_to_modify ==
  << "World|R5OECD", "World|R5LAM", "World|R5MAF", "World|R5REF", "World|R5ASIA" >>

regions_to_replace == << "World" >> \o regions_to_modify

var == "Emissions|CO2|MAGICC Fossil and Industrial"

GtC == "Gt C / yr"

start_index == 25

\* np.arange(2000, 2101): first year and exclusive stop
GridFirst == 2000

GridStop == 2101

NCols == GridStop - GridFirst

Cols == 0 .. (NCols - 1)

years_numeric == [k \in Cols |-> GridFirst + k]

(* ------------------------------ helpers ------------------------------- *)

Range(s) == { s[i] : i \in DOMAIN s }

RECURSIVE Gcd(_, _)
Gcd(a, b) == IF b = 0 THEN a ELSE Gcd(b, a % b)

Lcm(a, b) == (a * b) \div Gcd(a, b)

RECURSIVE SetLcm(_)
SetLcm(S) ==
  IF S = {} THEN 1
  ELSE LET x == CHOOSE x \in S : TRUE IN Lcm(x, SetLcm(S \ {x}))

RECURSIVE Concat(_)
Concat(ss) == IF ss = << >> THEN << >> ELSE Head(ss) \o Concat(Tail(ss))

(* ------------------------- modelled inputs ---------------------------- *)

\* Numerators of the reduction fractions a caller may pass.
RNums == (-1) .. (RDen + 1)

\* The target year of the regions an input leaves at their default (2075).
DefaultYear == END_YEAR - 25

\* Target years a caller may pass: below, at and above each edge the code
\* has, and one in the middle of the span.
TargetYears ==
  { START_YEAR - 2, START_YEAR - 1, START_YEAR, START_YEAR + 1,
    DefaultYear, END_YEAR, END_YEAR + 1 }

\* Ramp lengths (in years) of the in-range target years with a real ramp.
RampLengths == { y - START_YEAR : y \in { z \in TargetYears : z > START_YEAR /\ z <= END_YEAR } }

\* One unit of the fixed-point representation is 1/Scale.
Scale == RDen * SetLcm(RampLengths)

\* A fraction with numerator rn (over RDen) in fixed point.
Frac(rn) == rn * (Scale \div RDen)

(* --------------------------- the datasets ----------------------------- *)

Bunkers == "World|Bunkers"

\* A region the pipeline does not track and a variable it does not touch.
Untracked == "World|R5.2OTHER"

OtherVar == "Emissions|CH4"

\* BASELINE_SCENARIOS: choice -> scenario name
ScenarioName(choice) ==
  CASE choice = 1 -> "rcp26" [] choice = 2 -> "rcp45"
    [] choice = 3 -> "rcp60" [] OTHER -> "rcp85"

\* A number that tells the rows of a baseline apart.
RegionCode(region) ==
  CASE region = "World|R5LAM" -> 1 [] region = "World|R5MAF" -> 2
    [] region = "World|R5ASIA" -> 3 [] region = "World|R5REF" -> 4
    [] region = "World|R5OECD" -> 5 [] region = Bunkers -> 6
    [] region = Untracked -> 7 [] OTHER -> 9

\* One TimeSeriesRow on the annual grid: the seven metadata columns of the
\* index and the values, one per grid year (in units of 1/Scale).
Row(choice, region, variable, unit) ==
  [ meta |-> [ model |-> "unspecified", scenario |-> ScenarioName(choice),
               region |-> region, variable |-> variable, unit |-> unit,
               climate_model |-> "unspecified", todo |-> "SET" ],
    values |-> [ k \in Cols |->
                 Scale * (choice * RegionCode(region) + (k \div 10)
                          + (IF variable = var THEN 0 ELSE 20)) ] ]

\* The orders in which a dataset may list the five regional rows: the order
\* the docstring of modify_scenario names, the order of regions_to_modify,
\* and the alphabetical order.
RowOrders ==
  { REGIONS, regions_to_modify,
    << "World|R5ASIA", "World|R5LAM", "World|R5MAF", "World|R5OECD", "World|R5REF" >> }

\* The dataset kinds: "full" has the six expected rows once each; the others
\* depart from that schema at region g.
Variants ==
  { << "full", "World" >>, << "noWorld", "World" >>, << "extra", Untracked >> }
  \cup { << kind, g >> : kind \in { "noRegion", "renamed", "noWorldDup" },
                         g \in Range(REGIONS) }

\* What one row of the full layout becomes in a variant.
VariantRows(choice, v, row) ==
  LET m == row.meta
      hit == m.variable = var /\ m.region = v[2]
  IN  CASE v[1] = "noWorld" /\ hit -> << >>
        [] v[1] = "noRegion" /\ hit -> << >>
        [] v[1] = "renamed" /\ hit -> << Row(choice, Untracked, var, GtC) >>
        [] v[1] = "noWorldDup" /\ m.variable = var /\ m.region = "World" -> << >>
        [] v[1] = "noWorldDup" /\ hit ->
             << row, Row(choice, v[2], var, "Mt CO2 / yr") >>
        [] v[1] = "extra" /\ m.variable = var /\ m.region = Bunkers ->
             << row, Row(choice, Untracked, var, GtC) >>
        [] OTHER -> << row >>

\* The resampled dataset scen_t (the output of scenario.interpolate on the
\* annual grid) for a baseline choice, a row order and a variant.
Dataset(choice, order, v) ==
  LET full == << Row(choice, "World", var, GtC) >>
              \o [ i \in 1 .. 5 |-> Row(choice, order[i], var, GtC) ]
              \o << Row(choice, Bunkers, var, GtC),
                    Row(choice, "World", OtherVar, "Mt CH4 / yr"),
                    Row(choice, "World|R5ASIA", OtherVar, "Mt CH4 / yr") >>
  IN  Concat([ i \in DOMAIN full |-> VariantRows(choice, v, full[i]) ])

(* ------------------------------ state --------------------------------- *)

VARIABLES
  pc,                \* where modify_scenario stands
  r_factors,         \* argument: numerators of the five fractions
  target_years,      \* argument: the five target years
  scen_t,            \* the resampled dataset
  R_phase,           \* the phase schedule, one row per position
  reg_C02,           \* the selected regional rows
  world_co2_series,  \* the column sums of reg_C02
  new_run,           \* the reassembled dataset
  err                \* the exception that ended the call, or "none"

vars ==
  << pc, r_factors, target_years, scen_t, R_phase, reg_C02,
     world_co2_series, new_run, err >>

Init ==
  /\ pc = "main"
  /\ r_factors = << >>
  /\ target_years = << >>
  /\ scen_t = << >>
  /\ R_phase = << >>
  /\ reg_C02 = << >>
  /\ world_co2_series = << >>
  /\ new_run = << >>
  /\ err = "none"

(* ----------------------- PhaseScheduleBuilder ------------------------- *)

Min(a, b) == IF a < b THEN a ELSE b

Max(a, b) == IF a > b THEN a ELSE b

\* target_index = [i - 2000 for i in target_years]
target_index(ty) == [i \in DOMAIN ty |-> ty[i] - GridFirst]

\* ramp_duration = [i - start_index + 1 for i in target_index]
ramp_duration(ty) == [i \in DOMAIN ty |-> target_index(ty)[i] - start_index + 1]

\* Mutant of Linspace: the samples of np.linspace(..., endpoint=False).
LinspaceNoEndpoint(stop, num) ==
  [k \in 0 .. (num - 1) |-> (stop * k) \div num]

\* np.linspace(start=0, stop=stop, num=num), for num >= 0: num evenly spaced
\* samples with both endpoints; a single sample is the start, 0.
Linspace(stop, num) ==
  [k \in 0 .. (num - 1) |-> IF num = 1 THEN 0 ELSE (stop * k) \div (num - 1)]

\* The number of columns the slice a:b of a grid row selects (0 <= a, b).
SliceLen(a, b) == Max(0, Min(b, NCols) - Min(a, NCols))

\* np.linspace raises on a negative num (line 75).
LinspaceRaises(ty) == \E i \in DOMAIN ty : ramp_duration(ty)[i] < 0

\* R_phase[i, start_index : target_index[i] + 1] = scale_factor[i] raises when
\* the ramp neither has the slice's length nor a single sample (line 78).
SliceAssignRaises(ty) ==
  \E i \in DOMAIN ty :
    /\ ramp_duration(ty)[i] # SliceLen(start_index, target_index(ty)[i] + 1)
    /\ ramp_duration(ty)[i] # 1

\* The row of R_phase for one position, as the three writes of lines 71, 78
\* and 79 leave it: zeros, the ramp over start_index .. target_index, and r
\* over everything after target_index.  (Reached with ramp_duration >= 0 only,
\* so target_index >= start_index - 1.)
PhaseRow(rn, tidx, num) ==
  LET scale_factor == Linspace(Frac(rn), num)
  IN  [k \in Cols |->
        IF k > tidx THEN Frac(rn)
        ELSE IF k >= start_index THEN scale_factor[k - start_index]
        ELSE 0]

\* R_phase as lines 71-79 build it.
BuildRPhase(rf, ty) ==
  [i \in DOMAIN rf |-> PhaseRow(rf[i], target_index(ty)[i], ramp_duration(ty)[i])]

(* -------------------------- RegionalAdjuster -------------------------- *)

\* new_df.loc[...]: fossil CO2 in Gt C / yr of every region but World and
\* World|Bunkers, in the dataset's row order (lines 93-103).
IsRegionalCO2(row) ==
  /\ row.meta.region \notin { Bunkers, "World" }
  /\ row.meta.unit = GtC
  /\ row.meta.variable = var

SelectRegional(df) == SelectSeq(df, IsRegionalCO2)

\* One cell of reg_C02 *= (1 - R_phase): value * (1 - schedule).
Scaled(value, schedule) == (value * (Scale - schedule)) \div Scale

\* reg_C02 *= (1 - R_phase): row i of the selection times row i of 1 - R_phase.
AdjustRows(reg, phase) ==
  [i \in DOMAIN reg |->
    [reg[i] EXCEPT !.values = [k \in Cols |-> Scaled(reg[i].values[k], phase[i][k])]]]

(* --------------------------- WorldAggregator -------------------------- *)

RECURSIVE ColumnSum(_, _)
ColumnSum(rows, k) ==
  IF rows = << >> THEN 0 ELSE Head(rows).values[k] + ColumnSum(Tail(rows), k)

\* Mutant of WorldSeries: a sum that leaves out the first row.
WorldSeriesSkipsFirst(reg) == [k \in Cols |-> ColumnSum(Tail(reg), k)]

\* reg_C02.sum(): the sum of every column over the rows of reg_C02.
WorldSeries(reg) == [k \in Cols |-> ColumnSum(reg, k)]

(* ------------------------- ScenarioReassembler ------------------------ *)

\* filter(variable=var, region=regions_to_replace)
IsReplaced(row) ==
  row.meta.variable = var /\ row.meta.region \in Range(regions_to_replace)

\* Mutant of IsKept: a filter on the variable alone, which also drops the
\* fossil-CO2 row of World|Bunkers.
IsKeptByVariable(row) == row.meta.variable # var

\* keep=False: the rows the filter does not match.
IsKept(row) == ~IsReplaced(row)

\* scen_t.filter(variable=var, region=regions_to_replace, keep=False)
base_run(df) == SelectSeq(df, IsKept)

replacement_meta_template(df) == SelectSeq(df, IsReplaced)

\* .meta.set_index('region').loc[regions_to_modify]: for each label of
\* regions_to_modify in turn, the metadata of the rows carrying it.
r5_meta_ordered(df) ==
  LET tmpl == replacement_meta_template(df)
      OfRegion(g) ==
        LET Has(row) == row.meta.region = g IN SelectSeq(tmpl, Has)
      metas(rows) == [i \in DOMAIN rows |-> rows[i].meta]
  IN  Concat([j \in DOMAIN regions_to_modify |-> metas(OfRegion(regions_to_modify[j]))])

\* .loc[regions_to_modify] raises KeyError when a label has no row.
LocRaises(df) ==
  \E j \in DOMAIN regions_to_modify :
    \A i \in DOMAIN df :
      ~(IsReplaced(df[i]) /\ df[i].meta.region = regions_to_modify[j])

world_meta(df) ==
  LET IsWorld(row) == IsReplaced(row) /\ row.meta.region = "World"
      rows == SelectSeq(df, IsWorld)
  IN  [i \in DOMAIN rows |-> rows[i].meta]

\* pd.concat([world_meta, r5_meta_ordered])
combined_meta(df) == world_meta(df) \o r5_meta_ordered(df)

\* np.vstack([world_co2_values_aligned, reg_C02.values])
combined_values(world, reg) ==
  << world >> \o [i \in DOMAIN reg |-> reg[i].values]

\* pd.DataFrame(data, index, columns) raises when the index and the data
\* have different numbers of rows.
FrameRaises(df, world, reg) ==
  Len(combined_meta(df)) # Len(combined_values(world, reg))

\* The six replacement rows: label i of combined_meta on row i of the values.
rep_run(df, world, reg) ==
  [i \in DOMAIN combined_meta(df) |->
    [meta |-> combined_meta(df)[i], values |-> combined_values(world, reg)[i]]]

\* base_run.append(rep_run)
Appended(df, world, reg) == base_run(df) \o rep_run(df, world, reg)

(* ------------------------------ inputs -------------------------------- *)

\* The per-region inputs modelled: region g gets (rn, y), the others (r0,
\* DefaultYear).  This is the dict get_inputs_via_gui returns.
RegionalTargets(g, rn, y, r0) ==
  [h \in Range(REGIONS) |->
    IF h = g THEN [R |-> rn, Year |-> y] ELSE [R |-> r0, Year |-> DefaultYear]]

\* r_vals = [regional_targets[r]['R'] for r in REGIONS]
r_vals(regional_targets) == [i \in DOMAIN REGIONS |-> regional_targets[REGIONS[i]].R]

\* y_vals = [regional_targets[r]['Year'] for r in REGIONS]
y_vals(regional_targets) == [i \in DOMAIN REGIONS |-> regional_targets[REGIONS[i]].Year]

\* The checks of the input dialogs: 0.0 <= r <= 1.0, START_YEAR <= yr <= END_YEAR.
GuiAccepts(rn, y) == 0 <= rn /\ rn <= RDen /\ START_YEAR <= y /\ y <= END_YEAR

(* ------------------------------ actions ------------------------------- *)

\* modify_scenario is entered with its three arguments.
Enter(rf, ty, df) ==
  /\ pc' = "phase"
  /\ r_factors' = rf
  /\ target_years' = ty
  /\ scen_t' = df
  /\ UNCHANGED << R_phase, reg_C02, world_co2_series, new_run, err >>

\* climate_app.py: the dialogs hand over a baseline of the package (all six
\* rows present, in the order the package lists them) and values they have
\* checked; __main__ passes them on in REGIONS order.
Main ==
  \E choice \in 1 .. NumBaselines, order \in RowOrders, g \in Range(REGIONS),
     rn \in RNums, y \in TargetYears, r0 \in { 0, RDen } :
    /\ pc = "main"
    /\ GuiAccepts(rn, y)
    /\ LET regional_targets == RegionalTargets(g, rn, y, r0)
       IN  Enter(r_vals(regional_targets), y_vals(regional_targets),
                 Dataset(choice, order, << "full", "World" >>))

\* Any other caller of modify_scenario with a well-formed dataset: any
\* fractions and years, in range or not, the vectors in REGIONS order.
DirectCall ==
  \E choice \in 1 .. NumBaselines, order \in RowOrders, g \in Range(REGIONS),
     rn \in RNums, y \in TargetYears, r0 \in { 0, RDen } :
    /\ pc = "main"
    /\ LET regional_targets == RegionalTargets(g, rn, y, r0)
       IN  Enter(r_vals(regional_targets), y_vals(regional_targets),
                 Dataset(choice, order, << "full", "World" >>))

\* A caller that passes a dataset of another schema, with in-range inputs.
SchemaCall ==
  \E choice \in 1 .. NumBaselines, order \in RowOrders,
     v \in Variants \ { << "full", "World" >> }, rn \in { 0, RDen } :
    /\ pc = "main"
    /\ LET regional_targets == RegionalTargets(REGIONS[1], rn, DefaultYear, 0)
       IN  Enter(r_vals(regional_targets), y_vals(regional_targets),
                 Dataset(choice, order, v))

Raise(what) ==
  /\ pc' = "error"
  /\ err' = what

\* Lines 69-79.
BuildPhase ==
  /\ pc = "phase"
  /\ IF LinspaceRaises(target_years) \/ SliceAssignRaises(target_years)
     THEN /\ Raise("ValueError")
          /\ UNCHANGED R_phase
     ELSE /\ pc' = "select"
          /\ R_phase' = BuildRPhase(r_factors, target_years)
          /\ UNCHANGED err
  /\ UNCHANGED << r_factors, target_years, scen_t, reg_C02, world_co2_series, new_run >>

\* Lines 84-103.
Select ==
  /\ pc = "select"
  /\ pc' = "adjust"
  /\ reg_C02' = SelectRegional(scen_t)
  /\ UNCHANGED << r_factors, target_years, scen_t, R_phase, world_co2_series, new_run, err >>

\* Line 106: the product raises unless the selection has R_phase's shape.
Adjust ==
  /\ pc = "adjust"
  /\ IF Len(reg_C02) # Len(R_phase)
     THEN /\ Raise("ValueError")
          /\ UNCHANGED reg_C02
     ELSE /\ pc' = "aggregate"
          /\ reg_C02' = AdjustRows(reg_C02, R_phase)
          /\ UNCHANGED err
  /\ UNCHANGED << r_factors, target_years, scen_t, R_phase, world_co2_series, new_run >>

\* Line 112.
Aggregate ==
  /\ pc = "aggregate"
  /\ pc' = "reassemble"
  /\ world_co2_series' = WorldSeries(reg_C02)
  /\ UNCHANGED << r_factors, target_years, scen_t, R_phase, reg_C02, new_run, err >>

\* Lines 115-149.
Reassemble ==
  /\ pc = "reassemble"
  /\ IF LocRaises(scen_t)
     THEN /\ Raise("KeyError")
          /\ UNCHANGED new_run
     ELSE IF FrameRaises(scen_t, world_co2_series, reg_C02)
     THEN /\ Raise("ValueError")
          /\ UNCHANGED new_run
     ELSE /\ pc' = "run"
          /\ new_run' = Appended(scen_t, world_co2_series, reg_C02)
          /\ UNCHANGED err
  /\ UNCHANGED << r_factors, target_years, scen_t, R_phase, reg_C02, world_co2_series >>

\* Line 152: pm.run(new_run).
RunSimulator ==
  /\ pc = "run"
  /\ pc' = "done"
  /\ UNCHANGED << r_factors, target_years, scen_t, R_phase, reg_C02,
                  world_co2_series, new_run, err >>

Next ==
  \/ Main
  \/ DirectCall
  \/ SchemaCall
  \/ BuildPhase
  \/ Select
  \/ Adjust
  \/ Aggregate
  \/ Reassemble
  \/ RunSimulator

Spec == Init /\ [][Next]_vars

(* ------------------------- sanity of the model ------------------------ *)

\* The selection as it was before line 106 changed it.
Original == SelectRegional(scen_t)

PhaseBuilt == R_phase # << >>

AdjustDone == pc \in { "aggregate", "reassemble", "run", "done" }

Assembled == pc \in { "run", "done" }

\* Every division of the fixed-point arithmetic is exact.
ExactArithmetic ==
  /\ PhaseBuilt =>
       \A i \in DOMAIN R_phase :
         LET num == ramp_duration(target_years)[i]
         IN  num > 1 =>
               \A k \in 0 .. (num - 1) : (Frac(r_factors[i]) * k) % (num - 1) = 0
  /\ AdjustDone =>
       \A i \in DOMAIN reg_C02 : \A k \in Cols :
         (Original[i].values[k] * (Scale - R_phase[i][k])) % Scale = 0

TypeOK ==
  /\ pc \in { "main", "phase", "select", "adjust", "aggregate", "reassemble",
              "run", "done", "error" }
  /\ err \in { "none", "ValueError", "KeyError" }
  /\ (pc = "error") = (err # "none")
  /\ pc # "main" => Len(r_factors) = 5 /\ Len(target_years) = 5

(* ------------------------------ claims -------------------------------- *)

\* Position of a region in a list of regions.
IndexIn(list, g) == CHOOSE i \in DOMAIN list : list[i] = g

Tracked == Range(REGIONS)

\* The fossil-CO2 rows of a table that carry region g.
RowsOf(table, g) ==
  { i \in DOMAIN table : table[i].meta.variable = var /\ table[i].meta.region = g }

\* The dataset has the six expected rows, once each.
WellFormed ==
  \A g \in Range(regions_to_replace) : Cardinality(RowsOf(scen_t, g)) = 1

InRange(i) ==
  /\ 0 <= r_factors[i] /\ r_factors[i] <= RDen
  /\ START_YEAR <= target_years[i] /\ target_years[i] <= END_YEAR

\* C1: the fraction and target year at position i of the caller's vectors act
\* on the fossil-CO2 row of region REGIONS[i]: once line 106 has run, the row
\* of every tracked region g is its resampled row times (1 - the schedule
\* built from position IndexIn(REGIONS, g)), whatever the dataset's row order.
C1_RegionalAlignment ==
  AdjustDone =>
    \A j \in DOMAIN reg_C02 :
      LET g == reg_C02[j].meta.region
      IN  g \in Tracked =>
            \A k \in Cols :
              reg_C02[j].values[k] =
                Scaled(Original[j].values[k], R_phase[IndexIn(REGIONS, g)][k])

\* C2: for r in [0,1] and a target year in [2025, 2100] the schedule is 0
\* before the ramp start, r at the target year and after it, and
\* non-decreasing over the ramp window.
C2_PhaseSchedule ==
  PhaseBuilt =>
    \A i \in DOMAIN R_phase :
      InRange(i) =>
        LET tidx == target_index(target_years)[i]
            r == Frac(r_factors[i])
        IN  /\ \A k \in Cols : k < start_index => R_phase[i][k] = 0
            /\ R_phase[i][tidx] = r
            /\ \A k \in Cols : k > tidx => R_phase[i][k] = r
            /\ \A k \in Cols :
                 (start_index <= k /\ k < tidx) => R_phase[i][k] <= R_phase[i][k + 1]

\* C3: a target year equal to the ramp start (2025) gives a schedule that is
\* 0 before 2025, r at 2025 itself and r afterwards.
C3_ImmediateStep ==
  PhaseBuilt =>
    \A i \in DOMAIN R_phase :
      (InRange(i) /\ target_years[i] = START_YEAR) =>
        /\ \A k \in Cols : k < start_index => R_phase[i][k] = 0
        /\ \A k \in Cols : k >= start_index => R_phase[i][k] = Frac(r_factors[i])

WorldRows(table) == RowsOf(table, "World")

\* The dataset with the values of its World fossil-CO2 row replaced by zeros.
OtherWorld(df) ==
  [i \in DOMAIN df |->
    IF i \in WorldRows(df) THEN [df[i] EXCEPT !.values = [k \in Cols |-> 0]] ELSE df[i]]

\* C5: in the dataset handed to the simulator the World fossil-CO2 row is, at
\* every grid year, the sum of the five adjusted regional rows of that
\* dataset, and a baseline that differs only in its World row gives the same
\* World row.
C5_WorldIsSum ==
  (Assembled /\ WellFormed) =>
    LET regional == SelectSeq(new_run, LAMBDA row :
                      row.meta.variable = var /\ row.meta.region \in Tracked)
        sum == [k \in Cols |-> ColumnSum(regional, k)]
        alt == OtherWorld(scen_t)
        reg == AdjustRows(SelectRegional(alt), R_phase)
        out == Appended(alt, WorldSeries(reg), reg)
    IN  /\ Cardinality(WorldRows(new_run)) = 1
        /\ Len(regional) = 5
        /\ \A w \in WorldRows(new_run) :
             /\ new_run[w].values = sum
             /\ \A v \in WorldRows(out) : out[v].values = new_run[w].values

\* C5 witness: a finished run on a well-formed dataset with a non-zero
\* reduction whose new World row differs from the baseline's World row.
C5_Witness ==
  /\ pc = "done"
  /\ WellFormed
  /\ \E i \in DOMAIN r_factors : r_factors[i] > 0
  /\ \E w \in WorldRows(new_run), v \in WorldRows(scen_t) :
       new_run[w].values # scen_t[v].values

\* The rows the reassembly must leave alone.
Untouched(row) ==
  row.meta.region \notin ({ "World" } \cup Tracked) \/ row.meta.variable # var

\* C6: the reassembled dataset has as many rows as the resampled one, and
\* every row outside {World, five regions} x {fossil CO2} is in it unchanged,
\* metadata and values.
C6_Frame ==
  Assembled =>
    /\ Len(new_run) = Len(scen_t)
    /\ \A i \in DOMAIN scen_t :
         Untouched(scen_t[i]) =>
           Cardinality({ j \in DOMAIN new_run : new_run[j] = scen_t[i] }) = 1
    /\ \A j \in DOMAIN new_run :
         Untouched(new_run[j]) => \E i \in DOMAIN scen_t : scen_t[i] = new_run[j]

\* C6 witness: a finished run whose dataset has a World|Bunkers fossil-CO2
\* row and another variable of World and of a tracked region, while a tracked
\* fossil-CO2 row did change.
C6_Witness ==
  /\ pc = "done"
  /\ \E i \in DOMAIN scen_t :
       scen_t[i].meta.region = Bunkers /\ scen_t[i].meta.variable = var
  /\ \E i \in DOMAIN scen_t :
       scen_t[i].meta.region \in Tracked /\ scen_t[i].meta.variable # var
  /\ \E i \in DOMAIN scen_t :
       scen_t[i].meta.region = "World" /\ scen_t[i].meta.variable # var
  /\ \E i \in DOMAIN scen_t : \A j \in DOMAIN new_run : new_run[j] # scen_t[i]

\* The regions of the replacement rows, in the order they are emitted.
ReplacementRegions ==
  LET rows == SelectSeq(new_run, IsReplaced)
  IN  [i \in DOMAIN rows |-> rows[i].meta.region]

\* C7: the six replacement rows are emitted World first, then the five
\* regions in REGIONS order, so that the k-th regional replacement row
\* belongs to position k of the caller's vectors.
C7_ReplacementOrder ==
  (Assembled /\ WellFormed) => ReplacementRegions = << "World" >> \o REGIONS

\* C8: a call with a fraction outside [0,1] or a target year outside
\* [2025, 2100] ends in an error before anything is computed: it never gets
\* past the schedule builder and never reaches the simulator.
C8_InputValidation ==
  (pc # "main" /\ \E i \in DOMAIN r_factors : ~InRange(i)) =>
    pc \in { "phase", "error" }

\* C9: when one of the six expected rows is absent from the dataset, no
\* reassembled dataset is produced and the simulator is not invoked.
C9_SchemaMismatch ==
  (pc # "main" /\ \E g \in Range(regions_to_replace) : RowsOf(scen_t, g) = {}) =>
    /\ ~Assembled
    /\ new_run = << >>

\* C10: each replacement row labelled with a tracked region g carries the
\* adjusted series of the source row of g, and the World row the sum; with
\* all five fractions 0 every tracked row of the output equals its row of
\* the resampled baseline.
C10_LabelValue ==
  (Assembled /\ WellFormed) =>
    /\ \A j \in DOMAIN new_run :
         (new_run[j].meta.variable = var /\ new_run[j].meta.region \in Tracked) =>
           \E i \in DOMAIN reg_C02 :
             /\ reg_C02[i].meta.region = new_run[j].meta.region
             /\ reg_C02[i].values = new_run[j].values
    /\ \A w \in WorldRows(new_run) : new_run[w].values = WorldSeries(reg_C02)
    /\ (\A i \in DOMAIN r_factors : r_factors[i] = 0) =>
         \A i \in DOMAIN scen_t :
           (scen_t[i].meta.variable = var /\ scen_t[i].meta.region \in Tracked) =>
             \E j \in DOMAIN new_run : new_run[j] = scen_t[i]

====
